---- MODULE Spec2Model ----
(***************************************************************************)
(* Model of the review and product routers (app/routers/reviews.py,        *)
(* app/routers/products.py): the products and reviews tables, the request  *)
(* handlers cut at the awaits where another request can run, and           *)
(* update_product_rating, the rating recomputation.                        *)
(***************************************************************************)
EXTENDS Integers, Sequences, FiniteSets

\* Requests served in one run (caps the run, the tables grow by at most one
\* row per request).
MaxRequests == 4

\* Request slots: two requests can be in flight at once.
Requests == {1, 2}

\* Inputs.
Sellers == {1, 2}
Names == {"a", "b"}
Grades == {0, 3, 5, 6}
\* categories table: 1 is active; 2 is inactive or names no row (the handlers
\* select the active category with this id, and find none in both cases).
CategoryIds == {1, 2}

VARIABLES products, reviews, pc, loc, resp, nreq

vars == <<products, reviews, pc, loc, resp, nreq>>

----------------------------------------------------------------------------
\* Values

\* SQL NULL / Python None for a numeric result.
NULL == <<0, 0>>

RECURSIVE GCD(_, _)
GCD(a, b) == IF b = 0 THEN a ELSE GCD(b, a % b)

\* The number n/d, d > 0, in lowest terms.
Frac(n, d) == <<n \div GCD(n, d), d \div GCD(n, d)>>

RECURSIVE SumGrades(_)
SumGrades(S) ==
    IF S = {} THEN 0
    ELSE LET i == CHOOSE x \in S : TRUE
         IN reviews[i].grade + SumGrades(S \ {i})

\* Primary keys are the row numbers.
ProductIds == DOMAIN products
ReviewIds == DOMAIN reviews

CategoryActive(cid) == cid = 1

NoLocals == [op |-> "", product_id |-> 0, review_id |-> 0, grade |-> 0,
             name |-> "", category_id |-> 0, updated_rating |-> NULL]

\* resp is the response sent last: the handler, the status code and, for the
\* two list results, the ids of the rows returned.
NoResponse == [op |-> "", status |-> 0, body |-> <<>>]

Response(op, code) == [op |-> op, status |-> code, body |-> <<>>]

Idle(r) == pc[r] = "idle"

Quiescent == \A r \in Requests : Idle(r)

\* A request is accepted into slot r, the first free one.
Accept(r) ==
    /\ Idle(r)
    /\ \A q \in Requests : q < r => ~Idle(q)
    /\ nreq < MaxRequests
    /\ nreq' = nreq + 1

\* The handler returns or raises: the slot is free again.
Reply(r, response) ==
    /\ pc' = [pc EXCEPT ![r] = "idle"]
    /\ loc' = [loc EXCEPT ![r] = NoLocals]
    /\ resp' = response

Goto(r, label, locals) ==
    /\ pc' = [pc EXCEPT ![r] = label]
    /\ loc' = [loc EXCEPT ![r] = locals]
    /\ UNCHANGED resp

----------------------------------------------------------------------------
\* Queries

\* select(ReviewModel).where(is_active == True): the ids, in table order.
ActiveReviews == {i \in ReviewIds : reviews[i].is_active}

RECURSIVE SetToSeq(_)
SetToSeq(S) ==
    IF S = {} THEN <<>>
    ELSE LET m == CHOOSE x \in S : \A y \in S : x <= y
         IN <<m>> \o SetToSeq(S \ {m})

\* select(ProductModel).where(id == product_id, is_active == True).first()
ActiveProduct(product_id) ==
    product_id \in ProductIds /\ products[product_id].is_active

\* select(ReviewModel).where(id == review_id, is_active == True)
ActiveReviewRows(review_id) == {i \in ActiveReviews : i = review_id}

\* Variant of AvgGrade: the is_active filter is left out.
AvgGradeAllRows(product_id) ==
    LET S == {i \in ReviewIds : reviews[i].product_id = product_id}
    IN IF S = {} THEN NULL ELSE Frac(SumGrades(S), Cardinality(S))

\* select(func.avg(ReviewModel.grade)).where(product_id == ..., is_active == True)
AvgGrade(product_id) ==
    LET S == {i \in ActiveReviews : reviews[i].product_id = product_id}
    IN IF S = {} THEN NULL ELSE Frac(SumGrades(S), Cardinality(S))

\* The rating update_product_rating stores for a product.
Recomputed(product_id) ==
    IF AvgGrade(product_id) = NULL THEN <<0, 1>> ELSE AvgGrade(product_id)

\* Result.first(): the first row or None.  Result.all(): a list, never None.
ScalarsFirst(S) ==
    IF S = {} THEN [isNone |-> TRUE, rows |-> <<>>]
    ELSE [isNone |-> FALSE, rows |-> <<CHOOSE x \in S : \A y \in S : x <= y>>]

ScalarsAll(S) == [isNone |-> FALSE, rows |-> SetToSeq(S)]

IsNone(result) == result.isNone


Init ==
    /\ products = <<>>
    /\ reviews = <<>>
    /\ pc = [r \in Requests |-> "idle"]
    /\ loc = [r \in Requests |-> NoLocals]
    /\ resp = NoResponse
    /\ nreq = 0

----------------------------------------------------------------------------
\* app/routers/reviews.py

\* Variant of GetAllReviews: the is_active filter is left out.
GetAllReviewsUnfiltered(r) ==
    /\ Accept(r)
    /\ Reply(r, [op |-> "get_all_reviews", status |-> 200,
                 body |-> ScalarsAll(ReviewIds).rows])
    /\ UNCHANGED <<products, reviews>>

GetAllReviews(r) ==
    /\ Accept(r)
    /\ Reply(r, [op |-> "get_all_reviews", status |-> 200,
                 body |-> ScalarsAll(ActiveReviews).rows])
    /\ UNCHANGED <<products, reviews>>

GetReview(r, review_id) ==
    /\ Accept(r)
    /\ LET review == ScalarsAll(ActiveReviewRows(review_id))
       IN IF IsNone(review)
          THEN Reply(r, Response("get_review", 404))
          ELSE Reply(r, [op |-> "get_review", status |-> 200, body |-> review.rows])
    /\ UNCHANGED <<products, reviews>>

\* Variant of GradeInRange: the lower limit is off by one.
GradeInRangeFromZero(grade) == 0 <= grade /\ grade <= 5

\* not 1 <= review.grade <= 5
GradeInRange(grade) == 1 <= grade /\ grade <= 5

\* Variant of ReviewedProduct: the is_active filter is left out.
ReviewedProductAnyState(product_id) ==
    ScalarsFirst({p \in ProductIds : p = product_id})

\* The product lookup of create_review.
ReviewedProduct(product_id) ==
    ScalarsFirst({p \in ProductIds : p = product_id /\ products[p].is_active})

\* create_review up to its first write: the product lookup and the checks.
CreateReviewCheck(r, product_id, grade) ==
    /\ Accept(r)
    /\ LET product == ReviewedProduct(product_id)
       IN IF IsNone(product)
          THEN Reply(r, Response("create_review", 404))
          ELSE IF ~GradeInRange(grade)
          THEN Reply(r, Response("create_review", 400))
          ELSE Goto(r, "create_review_commit",
                    [NoLocals EXCEPT !.op = "create_review",
                                     !.product_id = product.rows[1],
                                     !.grade = grade])
    /\ UNCHANGED <<products, reviews>>

\* ReviewModel(**review.model_dump(), user_id=...): is_active defaults to True.
NewReview(product_id, grade) ==
    [product_id |-> product_id, grade |-> grade, is_active |-> TRUE]

\* db.add(db_review); commit; refresh.
CreateReviewCommit(r) ==
    /\ pc[r] = "create_review_commit"
    /\ reviews' = Append(reviews, NewReview(loc[r].product_id, loc[r].grade))
    /\ Goto(r, "rating_read", [loc[r] EXCEPT !.review_id = Len(reviews) + 1])
    /\ UNCHANGED <<products, nreq>>

\* delete_review up to its first write: the review lookup.
DeleteReviewCheck(r, review_id) ==
    /\ Accept(r)
    /\ LET review == ScalarsFirst(ActiveReviewRows(review_id))
       IN IF IsNone(review)
          THEN Reply(r, Response("delete_review", 404))
          ELSE Goto(r, "delete_review_commit",
                    [NoLocals EXCEPT !.op = "delete_review",
                                     !.review_id = review_id,
                                     !.product_id = reviews[review.rows[1]].product_id])
    /\ UNCHANGED <<products, reviews>>

\* update(ReviewModel).where(id == review_id).values(is_active=False); commit.
DeleteReviewCommit(r) ==
    /\ pc[r] = "delete_review_commit"
    /\ reviews' = [i \in ReviewIds |->
                     IF i = loc[r].review_id
                     THEN [reviews[i] EXCEPT !.is_active = FALSE]
                     ELSE reviews[i]]
    /\ Goto(r, "rating_read", loc[r])
    /\ UNCHANGED <<products, nreq>>

----------------------------------------------------------------------------
\* update_product_rating (app/routers/products.py)

\* The select of the average, and the None -> 0.0 default.
UpdateRatingRead(r) ==
    /\ pc[r] = "rating_read"
    /\ Goto(r, "rating_write",
            [loc[r] EXCEPT !.updated_rating = Recomputed(loc[r].product_id)])
    /\ UNCHANGED <<products, reviews, nreq>>

\* Variant of UpdateRatingWrite: the average is selected again as the rating
\* is written.
UpdateRatingWriteFresh(r) ==
    /\ pc[r] = "rating_write"
    /\ products' = [p \in ProductIds |->
                      IF p = loc[r].product_id
                      THEN [products[p] EXCEPT !.rating = Recomputed(p)]
                      ELSE products[p]]
    /\ Reply(r, Response(loc[r].op, IF loc[r].op = "create_review" THEN 201 ELSE 200))
    /\ UNCHANGED <<reviews, nreq>>

\* update(ProductModel).where(id == product_id).values(rating=...); commit;
\* then the caller returns: 201 from create_review, 200 from delete_review.
UpdateRatingWrite(r) ==
    /\ pc[r] = "rating_write"
    /\ products' = [p \in ProductIds |->
                      IF p = loc[r].product_id
                      THEN [products[p] EXCEPT !.rating = loc[r].updated_rating]
                      ELSE products[p]]
    /\ Reply(r, Response(loc[r].op, IF loc[r].op = "create_review" THEN 201 ELSE 200))
    /\ UNCHANGED <<reviews, nreq>>

\* Variant of StorageFailure: the review change is rolled back with the
\* failed rating update.
StorageFailureRollback(r) ==
    /\ pc[r] \in {"rating_read", "rating_write"}
    /\ reviews' = IF loc[r].op = "create_review"
                  THEN SubSeq(reviews, 1, Len(reviews) - 1)
                  ELSE [reviews EXCEPT ![loc[r].review_id].is_active = TRUE]
    /\ Reply(r, Response(loc[r].op, 500))
    /\ UNCHANGED <<products, nreq>>

\* A storage error in update_product_rating (the select, the update or its
\* commit raises): the exception leaves the handler, nothing is undone.
StorageFailure(r) ==
    /\ pc[r] \in {"rating_read", "rating_write"}
    /\ Reply(r, Response(loc[r].op, 500))
    /\ UNCHANGED <<products, reviews, nreq>>

----------------------------------------------------------------------------
\* app/routers/products.py

\* ProductModel(**product.model_dump(), seller_id=...): active, rating 0.0.
NewProduct(seller, name, category_id) ==
    [seller_id |-> seller, name |-> name, category_id |-> category_id,
     is_active |-> TRUE, rating |-> <<0, 1>>]

\* product.model_dump(): the fields of ProductCreate.
ModelDump(name, category_id) == [name |-> name, category_id |-> category_id]

\* A row with the columns of values overwritten.
WithValues(row, values) ==
    [f \in DOMAIN row |-> IF f \in DOMAIN values THEN values[f] ELSE row[f]]

CreateProduct(r, seller, name, category_id) ==
    /\ Accept(r)
    /\ IF ~CategoryActive(category_id)
       THEN Reply(r, Response("create_product", 400)) /\ UNCHANGED products
       ELSE /\ products' = Append(products, NewProduct(seller, name, category_id))
            /\ Reply(r, Response("create_product", 201))
    /\ UNCHANGED reviews

\* Variant of UpdateProductCheck: the category lookup comes before the owner
\* check.
UpdateProductCheckCategoryFirst(r, product_id, seller, name, category_id) ==
    /\ Accept(r)
    /\ IF ~ActiveProduct(product_id)
       THEN Reply(r, Response("update_product", 404))
       ELSE IF ~CategoryActive(category_id)
       THEN Reply(r, Response("update_product", 400))
       ELSE IF products[product_id].seller_id # seller
       THEN Reply(r, Response("update_product", 403))
       ELSE Goto(r, "update_product_commit",
                 [NoLocals EXCEPT !.op = "update_product",
                                  !.product_id = product_id,
                                  !.name = name,
                                  !.category_id = category_id])
    /\ UNCHANGED <<products, reviews>>

\* update_product up to its write: the product lookup, the owner check and
\* the category lookup, in this order.
UpdateProductCheck(r, product_id, seller, name, category_id) ==
    /\ Accept(r)
    /\ IF ~ActiveProduct(product_id)
       THEN Reply(r, Response("update_product", 404))
       ELSE IF products[product_id].seller_id # seller
       THEN Reply(r, Response("update_product", 403))
       ELSE IF ~CategoryActive(category_id)
       THEN Reply(r, Response("update_product", 400))
       ELSE Goto(r, "update_product_commit",
                 [NoLocals EXCEPT !.op = "update_product",
                                  !.product_id = product_id,
                                  !.name = name,
                                  !.category_id = category_id])
    /\ UNCHANGED <<products, reviews>>

\* update(ProductModel).where(id == product_id).values(**model_dump()); commit.
UpdateProductCommit(r) ==
    /\ pc[r] = "update_product_commit"
    /\ products' = [p \in ProductIds |->
                      IF p = loc[r].product_id
                      THEN WithValues(products[p],
                                      ModelDump(loc[r].name, loc[r].category_id))
                      ELSE products[p]]
    /\ Reply(r, Response("update_product", 200))
    /\ UNCHANGED <<reviews, nreq>>

\* delete_product up to its write: the product lookup and the owner check.
DeleteProductCheck(r, product_id, seller) ==
    /\ Accept(r)
    /\ IF ~ActiveProduct(product_id)
       THEN Reply(r, Response("delete_product", 404))
       ELSE IF products[product_id].seller_id # seller
       THEN Reply(r, Response("delete_product", 403))
       ELSE Goto(r, "delete_product_commit",
                 [NoLocals EXCEPT !.op = "delete_product",
                                  !.product_id = product_id])
    /\ UNCHANGED <<products, reviews>>

\* Variant of DeleteProductCommit: the rating is cleared with the active flag.
DeleteProductCommitClearRating(r) ==
    /\ pc[r] = "delete_product_commit"
    /\ products' = [p \in ProductIds |->
                      IF p = loc[r].product_id
                      THEN WithValues(products[p],
                                      [is_active |-> FALSE, rating |-> <<0, 1>>])
                      ELSE products[p]]
    /\ Reply(r, Response("delete_product", 200))
    /\ UNCHANGED <<reviews, nreq>>

\* update(ProductModel).where(id == product_id).values(is_active=False); commit.
DeleteProductCommit(r) ==
    /\ pc[r] = "delete_product_commit"
    /\ products' = [p \in ProductIds |->
                      IF p = loc[r].product_id
                      THEN WithValues(products[p], [is_active |-> FALSE])
                      ELSE products[p]]
    /\ Reply(r, Response("delete_product", 200))
    /\ UNCHANGED <<reviews, nreq>>

----------------------------------------------------------------------------
\* Specifications

\* The ids a request can name: every row, and one id that names no row.
SomeProductId == 1 .. (Len(products) + 1)
SomeReviewId == 1 .. (Len(reviews) + 1)

\* A request arrives.
Start(r) ==
    \/ GetAllReviews(r)
    \/ \E id \in SomeReviewId : GetReview(r, id)
    \/ \E id \in SomeProductId, g \in Grades : CreateReviewCheck(r, id, g)
    \/ \E id \in SomeReviewId : DeleteReviewCheck(r, id)
    \/ \E s \in Sellers, n \in Names, c \in CategoryIds : CreateProduct(r, s, n, c)
    \/ \E id \in SomeProductId, s \in Sellers, n \in Names, c \in CategoryIds :
          UpdateProductCheck(r, id, s, n, c)
    \/ \E id \in SomeProductId, s \in Sellers : DeleteProductCheck(r, id, s)

\* A request in flight runs to its next await.
Step(r) ==
    \/ CreateReviewCommit(r)
    \/ DeleteReviewCommit(r)
    \/ UpdateRatingRead(r)
    \/ UpdateRatingWrite(r)
    \/ UpdateProductCommit(r)
    \/ DeleteProductCommit(r)

\* Requests run concurrently, interleaved at their awaits.
Next == \E r \in Requests : Start(r) \/ Step(r)

Spec == Init /\ [][Next]_vars

\* Requests run one at a time.
NextSeq == \E r \in Requests : (Quiescent /\ Start(r)) \/ Step(r)

SpecSeq == Init /\ [][NextSeq]_vars

\* Requests run one at a time, and the storage can fail in update_product_rating.
NextFail ==
    \E r \in Requests :
        (Quiescent /\ Start(r)) \/ Step(r) \/ StorageFailure(r)

SpecFail == Init /\ [][NextFail]_vars

----------------------------------------------------------------------------
\* Properties

\* What the properties say of the tables, stated apart from the queries above.
RowActive(table, id) == id \in DOMAIN table /\ table[id].is_active

\* The active reviews of a product.
Counted(p) == {i \in DOMAIN reviews : reviews[i].product_id = p /\ reviews[i].is_active}

RECURSIVE GradeTotal(_, _)
GradeTotal(p, n) ==
    IF n = 0 THEN 0
    ELSE GradeTotal(p, n - 1) + (IF n \in Counted(p) THEN reviews[n].grade ELSE 0)

\* rating is the mean of the grades of the product's active reviews, 0.0 when
\* it has none (rating = <<num, den>>: num / den = total / count).
RatingIsMean(p) ==
    LET rating == products[p].rating
        count == Cardinality(Counted(p))
    IN IF count = 0 THEN rating = <<0, 1>>
       ELSE rating[2] > 0 /\ rating[1] * count = GradeTotal(p, Len(reviews)) * rating[2]

\* C1: when no request is in flight, after requests run one at a time to
\* completion, every product's rating is the mean of the grades of its
\* active reviews, or 0.0 when it has none.
C1_RatingIsMeanWhenQuiescent ==
    Quiescent => \A p \in DOMAIN products : RatingIsMean(p)

\* C1 witness: a product rated 4.0 by two active reviews (3 and 5).
C1_Witness ==
    /\ Quiescent
    /\ \E p \in DOMAIN products :
          /\ products[p].rating = <<4, 1>>
          /\ Cardinality(Counted(p)) = 2

\* C2: get review by id answers 404 whenever no active review has the id.
C2_GetReviewNotFound ==
    [][\A r \in Requests, id \in SomeReviewId :
          (GetReview(r, id) /\ ~RowActive(reviews, id)) => resp'.status = 404]_vars

\* C3, as claimed: create review with a grade outside [1,5] answers 400 and
\* changes neither the reviews nor the products.
C3_BadGradeIs400 ==
    [][\A r \in Requests, id \in SomeProductId, g \in Grades :
          (CreateReviewCheck(r, id, g) /\ ~(g \in 1..5))
          => /\ resp' = Response("create_review", 400)
             /\ reviews' = reviews /\ products' = products]_vars

\* C3, amended: create review with a grade outside [1,5] is rejected and
\* changes neither the reviews nor the products; it answers 400 when the
\* product exists and is active, and 404 (the product check comes first)
\* when it does not.
C3_BadGradeRejected ==
    [][\A r \in Requests, id \in SomeProductId, g \in Grades :
          (CreateReviewCheck(r, id, g) /\ ~(g \in 1..5))
          => /\ resp' = Response("create_review",
                                 IF RowActive(products, id) THEN 400 ELSE 404)
             /\ Quiescent'
             /\ reviews' = reviews /\ products' = products]_vars

\* C3 witness: create review was answered 400 for an existing product.
C3_Witness ==
    /\ resp = Response("create_review", 400)
    /\ \E p \in DOMAIN products : products[p].is_active

\* C4: create review for a product id that names no product or a
\* soft-deleted one answers 404, inserts no review and runs no recomputation
\* (the request ends, the products are untouched).
C4_UnknownProductIs404 ==
    [][\A r \in Requests, id \in SomeProductId, g \in Grades :
          (CreateReviewCheck(r, id, g) /\ ~RowActive(products, id))
          => /\ resp' = Response("create_review", 404)
             /\ Quiescent'
             /\ reviews' = reviews /\ products' = products]_vars

\* C4 witness: create review was answered 404 with a soft-deleted product
\* in the table.
C4_Witness ==
    /\ resp = Response("create_review", 404)
    /\ \E p \in DOMAIN products : ~products[p].is_active

\* C5: a review, once soft-deleted, keeps its row with active = false and
\* never becomes active again; soft-delete review removes no row; list active
\* reviews returns no inactive review; the rating a recomputation stores is
\* the mean over the active reviews only.
C5_SoftDeletedReviewStaysOut ==
    [][/\ \A i \in DOMAIN reviews :
             /\ i \in DOMAIN reviews'
             /\ reviews'[i].product_id = reviews[i].product_id
             /\ reviews'[i].grade = reviews[i].grade
             /\ ~reviews[i].is_active => ~reviews'[i].is_active
       /\ \A r \in Requests :
             DeleteReviewCommit(r)
             => /\ Len(reviews') = Len(reviews)
                /\ ~reviews'[loc[r].review_id].is_active
       /\ \A r \in Requests :
             GetAllReviews(r)
             => /\ \A k \in DOMAIN resp'.body : reviews[resp'.body[k]].is_active
                /\ \A i \in DOMAIN reviews :
                      reviews[i].is_active => \E k \in DOMAIN resp'.body : resp'.body[k] = i
       /\ \A r \in Requests :
             (pc[r] = "rating_write" /\ pc'[r] = "idle")
             => \A p \in DOMAIN products :
                   p = loc[r].product_id => RatingIsMean(p)']_vars

\* C5 witness: a product with grades 3 (active) and 5 (soft-deleted), rated
\* 3.0 as soft-delete review returns.
C5_Witness ==
    /\ resp = Response("delete_review", 200)
    /\ \E p \in DOMAIN products, i, j \in DOMAIN reviews :
          /\ reviews[i] = [product_id |-> p, grade |-> 3, is_active |-> TRUE]
          /\ reviews[j] = [product_id |-> p, grade |-> 5, is_active |-> FALSE]
          /\ Counted(p) = {i}
          /\ products[p].rating = <<3, 1>>

\* C6: update product and soft-delete product asked by a seller who does not
\* own the existing active product answer 403 and change no product, for any
\* category in the payload.
C6_NotOwnerIs403 ==
    [][\A r \in Requests, id \in SomeProductId, s \in Sellers :
          /\ \A n \in Names, c \in CategoryIds :
                (/\ UpdateProductCheck(r, id, s, n, c)
                 /\ RowActive(products, id) /\ products[id].seller_id # s)
                => /\ resp' = Response("update_product", 403)
                   /\ Quiescent'
                   /\ products' = products
          /\ (/\ DeleteProductCheck(r, id, s)
              /\ RowActive(products, id) /\ products[id].seller_id # s)
             => /\ resp' = Response("delete_product", 403)
                /\ Quiescent'
                /\ products' = products]_vars

\* C6 witness: update product was answered 403.
C6_Witness ==
    /\ resp = Response("update_product", 403)
    /\ \E p \in DOMAIN products : products[p].is_active

\* The steps of the product handlers.
ProductHandlerStep ==
    \E r \in Requests :
       \/ \E s \in Sellers, n \in Names, c \in CategoryIds : CreateProduct(r, s, n, c)
       \/ \E id \in SomeProductId, s \in Sellers, n \in Names, c \in CategoryIds :
             UpdateProductCheck(r, id, s, n, c)
       \/ \E id \in SomeProductId, s \in Sellers : DeleteProductCheck(r, id, s)
       \/ UpdateProductCommit(r)
       \/ DeleteProductCommit(r)

\* C7: a rating changes only as update_product_rating writes it; create,
\* update and soft-delete product keep every existing product's rating, and
\* soft-delete product changes nothing but the target's active flag.
C7_RatingOnlyRecomputed ==
    [][/\ \A p \in DOMAIN products :
             products'[p].rating # products[p].rating
             => \E r \in Requests : pc[r] = "rating_write" /\ loc[r].product_id = p
       /\ ProductHandlerStep
          => \A p \in DOMAIN products : products'[p].rating = products[p].rating
       /\ \A r \in Requests :
             DeleteProductCommit(r)
             => /\ reviews' = reviews
                /\ products' = [products EXCEPT ![loc[r].product_id].is_active = FALSE]]_vars

\* C7 witness: soft-delete product returned and the product keeps a rating
\* that a review gave it.
C7_Witness ==
    /\ resp = Response("delete_product", 200)
    /\ \E p \in DOMAIN products :
          ~products[p].is_active /\ products[p].rating # <<0, 1>>

\* C8: with review mutations of one product interleaved, a product's rating
\* is always the value of the recomputation that wrote last: a rating changes
\* only as a request at its rating write returns, and to the average that
\* request read earlier, whatever the reviews are by then.
C8_LastWriterWins ==
    [][/\ \A p \in DOMAIN products :
             products'[p].rating # products[p].rating
             => \E r \in Requests :
                   /\ pc[r] = "rating_write" /\ pc'[r] = "idle"
                   /\ loc[r].product_id = p
                   /\ products'[p].rating = loc[r].updated_rating
       /\ \A r \in Requests :
             (pc[r] = "rating_write" /\ pc'[r] = "idle"
                 /\ loc[r].product_id \in DOMAIN products)
             => products'[loc[r].product_id].rating = loc[r].updated_rating]_vars

\* C8 witness: both requests have returned and a product's rating is not the
\* mean of its active reviews.
C8_Witness ==
    /\ Quiescent
    /\ \E p \in DOMAIN products : ~RatingIsMean(p)

\* C9, as claimed: when create review or soft-delete review fails after the
\* review commit, it answers with a failure, the review change stays, the
\* rating is untouched, and the rating is not the mean of the active reviews.
C9_FailureDiverges ==
    [][\A r \in Requests :
          StorageFailure(r)
          => /\ resp'.status = 500
             /\ reviews' = reviews /\ products' = products
             /\ \A p \in DOMAIN products :
                   p = loc[r].product_id => ~RatingIsMean(p)']_vars

\* C9, amended: when create review or soft-delete review fails after the
\* review commit, it answers with a failure, the review change stays (the
\* created row is there and active, the soft-deleted one inactive), the
\* review commit and the failure leave the products untouched, and a rating
\* only changes as a later recomputation of that product writes and returns.
C9_FailureKeepsReviewAndRating ==
    [][/\ \A r \in Requests :
             StorageFailure(r)
             => /\ resp'.status = 500
                /\ Quiescent'
                /\ products' = products
                /\ loc[r].review_id \in DOMAIN reviews'
                /\ reviews'[loc[r].review_id].is_active = (loc[r].op = "create_review")
       /\ \A r \in Requests :
             pc[r] \in {"create_review_commit", "delete_review_commit"}
             => products' = products
       /\ \A p \in DOMAIN products :
             products'[p].rating # products[p].rating
             => \E r \in Requests :
                   /\ pc[r] = "rating_write" /\ loc[r].product_id = p
                   /\ resp'.status \in {200, 201}]_vars

\* C9 witness: a review request failed and the product's rating is not the
\* mean of its active reviews.
C9_Witness ==
    /\ Quiescent
    /\ resp.status = 500
    /\ \E p \in DOMAIN products : ~RatingIsMean(p)

\* C10: as create review inserts its review, the product is there and active.
C10_ReviewedProductActive ==
    [][\A r \in Requests :
          CreateReviewCommit(r) => RowActive(products, loc[r].product_id)]_vars

====
